---- MODULE Spec2Model ----
(***************************************************************************)
(* Model of the WEAPM-LOGSERVER API client (script/weapm/weapm_client.py)  *)
(* and of its command-line entry point (script/weapm/weapm_cli.py).        *)
(*                                                                         *)
(* Strings that take part in URL building are sequences of tokens: the     *)
(* token "/" is the slash character, every other token is a non-empty run  *)
(* of characters without a slash.  Durations of the retry backoff are in   *)
(* tenths of a second, so that retry_backoff_factor = 0.5 is the integer 5.*)
(***************************************************************************)
EXTENDS Integers, Sequences, FiniteSets, TLC

\* ------------------------------------------------------------------ bounds
MaxCalls == 2
MaxRetriesBound == 2

\* --------------------------------------------------------- string helpers
\* Variant of rstrip that removes one trailing slash only.
rstrip_once(s) ==
    IF s # <<>> /\ s[Len(s)] = "/" THEN SubSeq(s, 1, Len(s) - 1) ELSE s

RECURSIVE rstrip(_)
rstrip(s) ==
    IF s # <<>> /\ s[Len(s)] = "/" THEN rstrip(SubSeq(s, 1, Len(s) - 1)) ELSE s

Host == <<"http:", "/", "/", "host:8080">>

BaseUrls ==
    { <<>>, <<"/">>, Host, Host \o <<"/">>, Host \o <<"/", "/">> }

\* ------------------------------------------------------ WeapmConfig (33-59)
DefaultTimeout == 30
DefaultMaxRetries == 3
DefaultBackoffFactor == 5

WeapmConfig(b, u, p, t, r, f) ==
    [base_url |-> b, username |-> u, password |-> p, timeout |-> t,
     max_retries |-> r, retry_backoff_factor |-> f,
     pool_connections |-> 10, pool_maxsize |-> 10, enable_logging |-> TRUE]

NoConfig == WeapmConfig(<<>>, "", "", 0, 0, 0)

\* A dictionary handed to from_dict: the keys it has and their values.
ConfigDict(shape, keys, b, t, r, f) ==
    [shape |-> shape, keys |-> keys, base_url |-> b, timeout |-> t,
     max_retries |-> r, retry_backoff_factor |-> f]

NullBlock == ConfigDict("null", {}, <<>>, 0, 0, 0)

TunedKeys == {"base_url", "timeout", "max_retries", "retry_backoff_factor"}

ConfigDicts ==
    { ConfigDict("mapping", {}, <<>>, 0, 0, 0) }
    \cup { ConfigDict("mapping", {"base_url", "max_retries"}, b, 0, 0, 0) : b \in BaseUrls }
    \cup { ConfigDict("mapping", TunedKeys, Host \o <<"/">>, 5, r, 5) :
             r \in 0..MaxRetriesBound }
    \cup { ConfigDict("mapping", TunedKeys, Host \o <<"/">>, 5, MaxRetriesBound, 1000) }

get(d, key, default) == IF key \in d.keys THEN d[key] ELSE default

from_dict(config_dict) ==
    WeapmConfig(get(config_dict, "base_url", <<>>),
                "weapmUser", "Weapm@123admin",
                get(config_dict, "timeout", DefaultTimeout),
                get(config_dict, "max_retries", DefaultMaxRetries),
                get(config_dict, "retry_backoff_factor", DefaultBackoffFactor))

\* ------------------------------------------------- configuration documents
EnvNames == {"dev", "prod"}
NoEnv == "None"

\* What yaml.safe_load gives for the file at config_path: nothing at all
\* (exists = FALSE), an empty document (shape "empty", safe_load gives None)
\* or a mapping with top-level keys `keys`.
Document(exists, shape, keys, active, dev, prod) ==
    [exists |-> exists, shape |-> shape, keys |-> keys, active_env |-> active,
     dev |-> dev, prod |-> prod]

NoDocument == Document(FALSE, "empty", {}, NoEnv, NullBlock, NullBlock)
EmptyDocument == Document(TRUE, "empty", {}, NoEnv, NullBlock, NullBlock)

\* The environment blocks of the documents.
DevBlocks ==
    { NullBlock,
      ConfigDict("mapping", {}, <<>>, 0, 0, 0),
      ConfigDict("mapping", {"base_url", "max_retries"}, <<"/">>, 0, 0, 0),
      ConfigDict("mapping", {"base_url", "max_retries"}, Host \o <<"/">>, 0, 0, 0),
      ConfigDict("mapping", TunedKeys, Host \o <<"/">>, 5, MaxRetriesBound, 1000) }
ProdBlocks == { NullBlock, ConfigDict("mapping", {"base_url"}, Host, 0, 0, 0) }

Documents ==
    { NoDocument, EmptyDocument }
    \cup { Document(TRUE, "mapping", ks, IF "active_env" \in ks THEN a ELSE NoEnv,
                    IF "dev" \in ks THEN d ELSE NullBlock,
                    IF "prod" \in ks THEN p ELSE NullBlock) :
             ks \in SUBSET {"active_env", "dev", "prod"},
             a \in {"dev", "prod", "qa"},
             d \in DevBlocks,
             p \in ProdBlocks }

EnvArgs == {NoEnv, "dev", "prod"}

Result(err, cfg) == [error |-> err, config |-> cfg]

\* The environment from_yaml selects (lines 91-92).
selected_env(config_data, env) ==
    IF env # NoEnv THEN env
    ELSE IF "active_env" \in config_data.keys THEN config_data.active_env
    ELSE "dev"

from_yaml(config_data, env) ==
    IF ~config_data.exists THEN Result("FileNotFoundError", NoConfig)
    ELSE IF config_data.shape = "empty"
    THEN \* config_data is None: None.get(...) / `env not in None`
         Result(IF env = NoEnv THEN "AttributeError" ELSE "TypeError", NoConfig)
    ELSE LET e == selected_env(config_data, env) IN
         IF e \notin config_data.keys THEN Result("ValueError", NoConfig)
         ELSE LET env_config == config_data[e] IN
              IF env_config.shape = "null"
              THEN \* 'base_url' not in None
                   Result("TypeError", NoConfig)
              ELSE IF "base_url" \notin env_config.keys
              THEN Result("ValueError", NoConfig)
              ELSE Result("none", from_dict(env_config))

\* ------------------------------------------------------------ JSON values
JsonList(items) == [t |-> "list", items |-> items]
JsonNull == [t |-> "null", items |-> <<>>]
EmptyList == JsonList(<<>>)

\* A response body as response.json() sees it: undecodable ("invalid"), or
\* decoded to a list, to null, or to a mapping with the keys `keys`.
Body(shape, keys, code, message, result) ==
    [shape |-> shape, keys |-> keys, code |-> code, message |-> message,
     result |-> result]

InvalidBody == Body("invalid", {}, 0, "", JsonNull)
ListBody == Body("list", {}, 0, "", JsonNull)
NullBody == Body("null", {}, 0, "", JsonNull)
Dict(keys, code, message, result) ==
    Body("dict", keys,
         IF "code" \in keys THEN code ELSE 0,
         IF "message" \in keys THEN message ELSE "",
         IF "result" \in keys THEN result ELSE JsonNull)

Clusters == JsonList(<<"a">>)

Bodies ==
    { InvalidBody, ListBody, NullBody,
      Dict({}, 0, "", JsonNull),
      Dict({"result"}, 0, "", Clusters),
      Dict({"code"}, 0, "", JsonNull),
      Dict({"code", "result"}, 0, "", Clusters),
      Dict({"code", "result"}, 0, "", JsonNull),
      Dict({"code", "message", "result"}, 0, "ok", EmptyList),
      Dict({"code"}, 7, "", JsonNull),
      Dict({"code", "message"}, 7, "m", JsonNull),
      Dict({"code", "message", "result"}, 7, "m", Clusters) }

\* -------------------------------------------------- responses, exceptions
Response(status, retry_after, body) ==
    [status |-> status, retry_after |-> retry_after, body |-> body]

NoResponse == Response(0, 0, InvalidBody)

\* An exception: its class, the status of the response it carries (0 when
\* e.response is None), and the code and message its text is made from.
Exc(cls, status, code, message) ==
    [cls |-> cls, status |-> status, code |-> code, message |-> message]

NoExc == Exc("none", 0, 0, "")

DefaultMessage == "unknown error"

\* ------------------------------------ retry policy of the session (124-139)
status_forcelist == {429, 500, 502, 503, 504}
method_whitelist == {"HEAD", "GET", "OPTIONS", "POST", "PUT", "DELETE"}
RETRY_AFTER_STATUS_CODES == {413, 429, 503}
BACKOFF_MAX == 1200

RECURSIVE Pow2(_)
Pow2(n) == IF n <= 0 THEN 1 ELSE 2 * Pow2(n - 1)

Min(a, b) == IF a <= b THEN a ELSE b

\* Retry.is_retry: is a response with this status answered by a re-send?
is_retry(m, status, has_retry_after, tot) ==
    /\ m \in method_whitelist
    /\ \/ status \in status_forcelist
       \/ /\ tot # 0
          /\ has_retry_after
          /\ status \in RETRY_AFTER_STATUS_CODES

\* Variant of get_backoff_time whose exponent has the wrong sign.
get_backoff_time_halving(factor, n) ==
    IF n <= 1 THEN 0 ELSE Min(BACKOFF_MAX, factor \div Pow2(n - 1))

\* Retry.get_backoff_time after n consecutive failures.
get_backoff_time(factor, n) ==
    IF n <= 1 THEN 0 ELSE Min(BACKOFF_MAX, factor * Pow2(n - 1))

\* One sleep between two attempts: its length and what decided it.
Delay(d, by) == [delay |-> d, by |-> by]

\* Retry.sleep: the Retry-After header of the response wins over the backoff
\* (respect_retry_after_header is left at its default, True).
sleep(factor, n, retry_after) ==
    IF retry_after > 0 THEN Delay(retry_after, "Retry-After")
    ELSE Delay(get_backoff_time(factor, n), "backoff")

\* HTTPAdapter.send: the exception for an exhausted retry budget
\* (raise_on_status is left at its default, True).
exhausted(o) ==
    CASE o.kind = "response" -> Exc("RetryError", 0, 0, "")
      [] o.kind = "connect_timeout" -> Exc("ConnectTimeout", 0, 0, "")
      [] OTHER -> Exc("ConnectionError", 0, 0, "")

\* ----------------------------------------- response validation (179-197)
Outcome(exc, data) == [exc |-> exc, data |-> data]

raise_for_status(status) == 400 <= status /\ status < 600

\* Variant of validate without the check of the application code.
validate_without_code(response) ==
    IF raise_for_status(response.status)
    THEN Outcome(Exc("HTTPError", response.status, 0, ""), NullBody)
    ELSE IF response.body.shape = "invalid"
    THEN Outcome(Exc("ValueError", 0, 0, ""), NullBody)
    ELSE Outcome(NoExc, response.body)

\* Variant of validate that takes every `code`, 0 included, for an error.
validate_any_code(response) ==
    IF raise_for_status(response.status)
    THEN Outcome(Exc("HTTPError", response.status, 0, ""), NullBody)
    ELSE LET data == response.body IN
         IF data.shape = "invalid"
         THEN Outcome(Exc("ValueError", 0, 0, ""), NullBody)
         ELSE IF data.shape = "dict" /\ "code" \in data.keys
         THEN Outcome(Exc("HTTPError", 0, data.code,
                          IF "message" \in data.keys THEN data.message
                          ELSE DefaultMessage), NullBody)
         ELSE Outcome(NoExc, data)

validate(response) ==
    IF raise_for_status(response.status)
    THEN Outcome(Exc("HTTPError", response.status, 0, ""), NullBody)
    ELSE LET data == response.body IN
         IF data.shape = "invalid"
         THEN Outcome(Exc("ValueError", 0, 0, ""), NullBody)
         ELSE IF data.shape = "dict" /\ "code" \in data.keys /\ data.code # 0
         THEN Outcome(Exc("HTTPError", 0, data.code,
                          IF "message" \in data.keys THEN data.message
                          ELSE DefaultMessage), NullBody)
         ELSE Outcome(NoExc, data)

\* ------------------------------------------- resource operations (216-452)
None == "None"

JsonKeys ==
    {"address", "clustername", "role", "cpulimit", "memlimit", "topic",
     "bucketnames", "backenddomain", "storagedomain",
     "status", "subSystemId", "logImportValue", "logImportFiles", "traffic",
     "cluster", "subsysId", "limit"}

\* A dict of strings: the keys it has and the value of each.
Map(keys, val) == [keys |-> keys, val |-> [k \in JsonKeys |-> IF k \in keys THEN val[k] ELSE ""]]
NoMap == Map({}, [k \in JsonKeys |-> ""])

\* dict.update
update(d, other) ==
    Map(d.keys \cup other.keys,
        [k \in JsonKeys |-> IF k \in other.keys THEN other.val[k] ELSE d.val[k]])

setitem(d, key, v) ==
    Map(d.keys \cup {key}, [k \in JsonKeys |-> IF k = key THEN v ELSE d.val[k]])

\* The `timeout` keyword of a call of _request: not passed, or passed as None.
NotPassed == 0
NoTimeout == -1

\* One call of an operation: what it hands to _request (method, endpoint,
\* json, params, timeout keyword), whether it unwraps `result`, and `args`,
\* the named arguments as its caller passed them.
Req(op, m, endpoint, unwrap, json, params, tmo, args) ==
    [op |-> op, method |-> m, endpoint |-> endpoint, unwrap |-> unwrap,
     json |-> json, params |-> params, timeout |-> tmo, args |-> args]

NoReq == Req("none", "GET", <<>>, FALSE, NoMap, NoMap, NotPassed, NoMap)

Path(segments) ==
    [i \in 1..(2 * Len(segments)) |-> IF i % 2 = 1 THEN "/" ELSE segments[i \div 2]]

ClusterNames == {"LOG008"}
SubsystemIds == {"SYS001"}

get_dashboard_req ==
    Req("get_dashboard", "GET", Path(<<"operation", "dashboard">>), FALSE, NoMap, NoMap, NotPassed, NoMap)

get_clusters_req ==
    Req("get_clusters", "GET", Path(<<"operation", "clusters">>), TRUE, NoMap, NoMap, NotPassed, NoMap)

get_cluster_detail_req(cluster_name) ==
    Req("get_cluster_detail", "GET", Path(<<"operation", "clusters", cluster_name>>),
        FALSE, NoMap, NoMap, NotPassed, NoMap)

add_cluster_node_data(cluster_name, address, role, cpulimit, memlimit, kwargs) ==
    LET d0 == Map({"address", "clustername", "role"},
                  [k \in JsonKeys |-> CASE k = "address" -> address
                                        [] k = "clustername" -> cluster_name
                                        [] k = "role" -> role
                                        [] OTHER -> ""])
        d1 == IF cpulimit # None THEN setitem(d0, "cpulimit", cpulimit) ELSE d0
        d2 == IF memlimit # None THEN setitem(d1, "memlimit", memlimit) ELSE d1
    IN  update(d2, kwargs)

add_cluster_node_req(cluster_name, address, role, cpulimit, memlimit, kwargs) ==
    Req("add_cluster_node", "POST",
        Path(<<"operation", "clusters", cluster_name, "nodes">>), FALSE,
        add_cluster_node_data(cluster_name, address, role, cpulimit, memlimit, kwargs),
        NoMap, NotPassed,
        setitem(setitem(setitem(setitem(kwargs, "cpulimit", cpulimit),
                                "memlimit", memlimit),
                        "address", address),
                "role", role))

delete_cluster_node_req(ip) ==
    Req("delete_cluster_node", "DELETE", Path(<<"operation", "clusters", "nodes", ip>>),
        FALSE, NoMap, NoMap, NotPassed, NoMap)

get_cluster_subsystems_req(cluster_name) ==
    Req("get_cluster_subsystems", "GET",
        Path(<<"operation", "cluster", cluster_name, "subsystems">>), TRUE, NoMap, NoMap, NotPassed, NoMap)

check_subsystem_exists_req(subsystem_id) ==
    Req("check_subsystem_exists", "GET",
        Path(<<"operation", "subsystem", "exists", subsystem_id>>), FALSE, NoMap, NoMap, NotPassed, NoMap)

add_subsystem_req(sub_system_id, log_import_value, log_import_files, traffic, cluster) ==
    Req("add_subsystem", "POST", Path(<<"operation", "subsystem">>), FALSE,
        Map({"subSystemId", "logImportValue", "logImportFiles", "traffic", "cluster"},
            [k \in JsonKeys |-> CASE k = "subSystemId" -> sub_system_id
                                  [] k = "logImportValue" -> log_import_value
                                  [] k = "logImportFiles" -> log_import_files
                                  [] k = "traffic" -> traffic
                                  [] k = "cluster" -> cluster
                                  [] OTHER -> ""]),
        NoMap, NotPassed, NoMap)

adjust_subsystem_cluster_req(subsystem_id, query) ==
    Req("adjust_subsystem_cluster", "POST",
        Path(<<"operation", "subsystem", subsystem_id>>) \o <<query>>, FALSE,
        NoMap, NoMap, NotPassed, NoMap)

adjust_subsystem_status_req(subsystem_id, status) ==
    Req("adjust_subsystem_status", "POST",
        Path(<<"operation", "subsystem", subsystem_id, "status", status>>), FALSE,
        NoMap, NoMap, NotPassed, NoMap)

enable_subsystem_req(subsystem_id) ==
    Req("enable_subsystem", "PUT",
        Path(<<"operation", "subsystem", subsystem_id, "enable">>), FALSE, NoMap, NoMap, NotPassed, NoMap)

get_subsystem_detail_req(subsystem_id) ==
    Req("get_subsystem_detail", "GET", Path(<<"operation", "subsystem", subsystem_id>>),
        FALSE, NoMap, NoMap, NotPassed, NoMap)

get_subsystems_req ==
    Req("get_subsystems", "GET", Path(<<"operation", "subsystems">>), TRUE, NoMap, NoMap, NotPassed, NoMap)

\* subsys_id "" stands for None or the empty string (both falsy); limit is
\* the decimal text of the number.
search_subsystems_req(subsys_id, limit) ==
    LET p0 == NoMap
        p1 == IF subsys_id # "" THEN setitem(p0, "subsysId", subsys_id) ELSE p0
        p2 == IF limit # "20" THEN setitem(p1, "limit", limit) ELSE p1
    IN  Req("search_subsystems", "GET", Path(<<"operation", "subsystems", "search">>),
            TRUE, NoMap, p2, NotPassed, NoMap)

\* What an operation returns: the payload itself, or its `result`.
Value(kind, payload, result) == [kind |-> kind, payload |-> payload, result |-> result]
NoValue == Value("none", NullBody, JsonNull)

\* response.get('result', []) of the list-style operations.
unwrap(data) ==
    IF data.shape # "dict"
    THEN Outcome(Exc("AttributeError", 0, 0, ""), NoValue)
    ELSE Outcome(NoExc, Value("result", NullBody,
                               IF "result" \in data.keys THEN data.result ELSE EmptyList))

\* The end of one operation given the end of its _request call.
finish(r, out) ==
    IF out.exc # NoExc THEN Outcome(out.exc, NoValue)
    ELSE IF r.unwrap THEN unwrap(out.data)
    ELSE Outcome(NoExc, Value("payload", out.data, JsonNull))

\* ------------------------------------------------------------------ state
VARIABLES
    pc,           \* where the program is
    source,       \* how the configuration was made
    config_data,  \* from_yaml: the document read
    env,          \* from_yaml: the env argument
    config,       \* the WeapmConfig
    error,        \* the exception that ended configuration loading
    session,      \* "none", "open" or "closed"
    base_url,     \* WeapmClient.base_url
    timeout,      \* WeapmClient.timeout
    self_config,  \* WeapmClient.config
    closes,       \* number of session.close() calls
    exit_path,    \* how the with-block was left
    calls,        \* operations started on this client
    req,          \* the operation in progress or last finished
    url,          \* URL of the request
    req_timeout,  \* timeout handed to session.request
    total,        \* Retry.total left
    history,      \* Retry.history: the status of each failed attempt (0: no response)
    sent,         \* times the request was sent
    delays,       \* the sleeps between the attempts
    last,         \* what the last attempt observed
    returned,     \* _request returned (it did not raise)
    data,         \* the payload _request returned
    exc,          \* exception the operation raised
    value         \* value the operation returned

cfgVars == <<source, config_data, env, config, error>>
clientVars == <<session, base_url, timeout, self_config, closes, exit_path>>
callVars ==
    <<calls, req, url, req_timeout, total, history, sent, delays, last,
      returned, data, exc, value>>
vars == <<pc, cfgVars, clientVars, callVars>>

\* What one attempt observes: a response, or a failure of the connection.
Obs(kind, response) == [kind |-> kind, response |-> response]
NoObs == Obs("none", NoResponse)

RetryAfters == {0, 30}
ErrorBody == Dict({"code", "message"}, 7, "m", JsonNull)

\* The answers of the server: any body with a 200, an empty or an error body
\* with a 304 or a 404, a 503 with or without a Retry-After header.
ServerResponses ==
    { Response(200, 0, b) : b \in Bodies }
    \cup { Response(st, 0, b) : st \in {304, 404}, b \in {InvalidBody, ErrorBody} }
    \cup { Response(503, ra, ErrorBody) : ra \in RetryAfters }

Observations ==
    { Obs("response", r) : r \in ServerResponses }
    \cup { Obs(k, NoResponse) : k \in {"connect_error", "connect_timeout", "read_timeout"} }

Init ==
    /\ pc = "start"
    /\ source = "none"
    /\ config_data = NoDocument
    /\ env = NoEnv
    /\ config = NoConfig
    /\ error = "none"
    /\ session = "none"
    /\ base_url = <<>>
    /\ timeout = 0
    /\ self_config = NoConfig
    /\ closes = 0
    /\ exit_path = "none"
    /\ calls = 0
    /\ req = NoReq
    /\ url = <<>>
    /\ req_timeout = 0
    /\ total = 0
    /\ history = <<>>
    /\ sent = 0
    /\ delays = <<>>
    /\ last = NoObs
    /\ returned = FALSE
    /\ data = NullBody
    /\ exc = NoExc
    /\ value = NoValue

\* --------------------------------------------------------- configuration
\* WeapmConfig.from_yaml(config_path, env), as main() calls it (cli 203-222).
FromYaml ==
    /\ pc = "start"
    /\ \E doc \in Documents, e \in EnvArgs :
         LET r == from_yaml(doc, e) IN
         /\ config_data' = doc
         /\ env' = e
         /\ source' = "from_yaml"
         /\ config' = r.config
         /\ error' = r.error
         /\ pc' = IF r.error = "none" THEN "configured" ELSE "config_error"
    /\ UNCHANGED <<clientVars, callVars>>

\* WeapmConfig.from_dict(config_dict) called by a user of the module.
FromDict ==
    /\ pc = "start"
    /\ \E d \in ConfigDicts :
         /\ config' = from_dict(d)
         /\ source' = "from_dict"
    /\ pc' = "configured"
    /\ UNCHANGED <<config_data, env, error, clientVars, callVars>>

\* main() with --base-url: the configuration is constructed directly
\* (cli 205-212); args.base_url is truthy, args.timeout defaults to 30.
CliConfig ==
    /\ pc = "start"
    /\ \E b \in {Host, Host \o <<"/">>}, t \in {DefaultTimeout, 5} :
         /\ t = DefaultTimeout <=> b # Host
         /\ config' = WeapmConfig(b, "weapmUser", "Weapm@123admin", t,
                               DefaultMaxRetries, DefaultBackoffFactor)
    /\ source' = "cli"
    /\ pc' = "configured"
    /\ UNCHANGED <<config_data, env, error, clientVars, callVars>>

\* ------------------------------------------------------ client life cycle
\* WeapmClient.__init__ (111-141).  The locals of from_yaml are gone by now.
WeapmClientInit ==
    /\ pc = "configured"
    /\ session' = "open"
    /\ base_url' = rstrip(config.base_url)
    /\ timeout' = config.timeout
    /\ self_config' = config
    /\ config_data' = NoDocument
    /\ env' = NoEnv
    /\ pc' = "constructed"
    /\ UNCHANGED <<source, config, error, closes, exit_path, callVars>>

\* WeapmClient.__enter__ (460-462).
Enter ==
    /\ pc = "constructed"
    /\ pc' = "in_scope"
    /\ UNCHANGED <<cfgVars, clientVars, callVars>>

\* WeapmClient.close (456-458).
close == /\ session' = "closed"
         /\ closes' = closes + 1

\* Variant of __exit__ that closes the session on normal completion only.
exit_on_success_only(how) ==
    /\ IF how = "normal" THEN close ELSE UNCHANGED <<session, closes>>
    /\ exit_path' = how
    /\ pc' = "exited"
    /\ UNCHANGED <<cfgVars, base_url, timeout, self_config, callVars>>

\* WeapmClient.__exit__ (464-466), reached on path `how`.
exit(how) ==
    /\ close
    /\ exit_path' = how
    /\ pc' = "exited"
    /\ UNCHANGED <<cfgVars, base_url, timeout, self_config, callVars>>

\* The with-block runs to its end.
ExitNormal == pc = "in_scope" /\ exit("normal")

\* An exception of an operation leaves the with-block.
ExitException == pc = "raised" /\ exit("exception")

\* sys.exit(1) inside the with-block: cmd_clusters (cli 40-42) before any
\* request, or main's `except Exception` handler (cli 242-244) after one.
ExitAbort == pc \in {"in_scope", "raised"} /\ exit("abort")

\* The caller catches the exception inside the with-block (client 560, 583).
Caught ==
    /\ pc = "raised"
    /\ pc' = "in_scope"
    /\ UNCHANGED <<cfgVars, clientVars, callVars>>

\* ------------------------------------------------ request executor (143-212)
\* Variant of setdefault that also replaces a `timeout` passed as None.
setdefault_falsy(kw, default) == IF kw \notin {NotPassed, NoTimeout} THEN kw ELSE default

\* kwargs.setdefault('timeout', self.timeout) (159): the keyword the caller
\* passed stays, whatever its value; the default fills in when there is none.
setdefault(kw, default) == IF kw # NotPassed THEN kw ELSE default

\* Variant of request that joins base_url and endpoint with a slash of its own.
request_slash_joined(r) ==
    /\ pc = "in_scope"
    /\ calls < MaxCalls
    /\ calls' = calls + 1
    /\ req' = r
    /\ url' = base_url \o <<"/">> \o r.endpoint
    /\ req_timeout' = setdefault(r.timeout, timeout)
    /\ total' = self_config.max_retries
    /\ history' = <<>>
    /\ sent' = 0
    /\ delays' = <<>>
    /\ last' = NoObs
    /\ returned' = FALSE
    /\ data' = NullBody
    /\ exc' = NoExc
    /\ value' = NoValue
    /\ pc' = "sending"
    /\ UNCHANGED <<cfgVars, clientVars>>

\* _request up to the call of session.request: URL, default timeout, and a
\* fresh copy of the retry policy.
request(r) ==
    /\ pc = "in_scope"
    /\ calls < MaxCalls
    /\ calls' = calls + 1
    /\ req' = r
    /\ url' = base_url \o r.endpoint
    /\ req_timeout' = setdefault(r.timeout, timeout)
    /\ total' = self_config.max_retries
    /\ history' = <<>>
    /\ sent' = 0
    /\ delays' = <<>>
    /\ last' = NoObs
    /\ returned' = FALSE
    /\ data' = NullBody
    /\ exc' = NoExc
    /\ value' = NoValue
    /\ pc' = "sending"
    /\ UNCHANGED <<cfgVars, clientVars>>

\* Does the retry policy answer this observation with another attempt
\* (provided the budget is not exhausted)?
retryable(o, m, tot) ==
    IF o.kind = "response"
    THEN is_retry(m, o.response.status, o.response.retry_after > 0, tot)
    ELSE o.kind = "read_timeout" => m \in method_whitelist

\* The exception session.request raises when the policy gives up at once.
reraise(o) ==
    CASE o.kind = "connect_timeout" -> Exc("ConnectTimeout", 0, 0, "")
      [] o.kind = "read_timeout" -> Exc("ReadTimeout", 0, 0, "")
      [] OTHER -> Exc("ConnectionError", 0, 0, "")

\* The end of the call: _request ends with `out`, and the operation r that
\* called it with finish(r, out).
ends(r, out) ==
    LET fin == finish(r, out) IN
    /\ returned' = (out.exc = NoExc)
    /\ data' = out.data
    /\ exc' = fin.exc
    /\ value' = fin.data
    /\ pc' = IF fin.exc = NoExc THEN "in_scope" ELSE "raised"
    /\ UNCHANGED <<total, history, delays>>

\* PreparedRequest.prepare_url accepts the URL: it has a scheme.
has_scheme(u) == u # <<>> /\ u[1] \in {"http:", "https:"}

\* session.request refuses a URL without a scheme before anything is sent;
\* _request re-raises the MissingSchema (208-212).
Refuse ==
    /\ pc = "sending"
    /\ ~has_scheme(url)
    /\ ends(req, Outcome(Exc("MissingSchema", 0, 0, ""), NullBody))
    /\ UNCHANGED <<cfgVars, clientVars, calls, req, url, req_timeout, sent, last>>

\* One attempt of session.request; when it is the last one, the rest of
\* _request and of the operation that called it.
Attempt ==
    /\ pc = "sending"
    /\ has_scheme(url)
    /\ \E o \in Observations :
         /\ sent' = sent + 1
         /\ last' = o
         /\ IF retryable(o, req.method, total)
            THEN IF total - 1 < 0
                 THEN ends(req, Outcome(exhausted(o), NullBody))
                 ELSE /\ total' = total - 1
                      /\ history' = Append(history, o.response.status)
                      /\ delays' = Append(delays,
                                     sleep(self_config.retry_backoff_factor,
                                           Len(history) + 1, o.response.retry_after))
                      /\ UNCHANGED <<returned, data, exc, value, pc>>
            ELSE IF o.kind = "response"
                 THEN ends(req, validate(o.response))
                 ELSE ends(req, Outcome(reraise(o), NullBody))
    /\ UNCHANGED <<cfgVars, clientVars, calls, req, url, req_timeout>>

\* ------------------------------------------------------------- operations
Addresses == {"127.0.0.2"}
Kwargs ==
    { NoMap,
      Map({"topic", "status"}, [k \in JsonKeys |-> IF k = "topic" THEN "t" ELSE "active"]),
      Map({"clustername"}, [k \in JsonKeys |-> "OTHER"]) }

get_dashboard == request(get_dashboard_req)
get_clusters == request(get_clusters_req)
get_cluster_detail == \E c \in ClusterNames : request(get_cluster_detail_req(c))
add_cluster_node ==
    \E c \in ClusterNames, a \in Addresses, cpu \in {None, "8"}, mem \in {None, "16"},
       kw \in Kwargs :
        /\ kw # NoMap => (cpu = None /\ mem = None)
        /\ mem # None => cpu # None
        /\ request(add_cluster_node_req(c, a, "write", cpu, mem, kw))
\* cmd_add_node (cli 66-80): every option of the parser is passed by name,
\* None for an option that was not on the command line.
CliOptions == {"topic", "bucketnames", "backenddomain", "storagedomain", "status"}
cmd_add_node ==
    /\ source \in {"cli", "from_yaml"}
    /\ \E c \in ClusterNames, a \in Addresses, cpu \in {None, "8"}, topic \in {None, "t"} :
        /\ cpu = None <=> topic = None
        /\ request(add_cluster_node_req(c, a, "write", cpu, None,
                Map(CliOptions, [k \in JsonKeys |-> IF k = "topic" THEN topic ELSE None])))
delete_cluster_node == \E ip \in Addresses : request(delete_cluster_node_req(ip))
get_cluster_subsystems == \E c \in ClusterNames : request(get_cluster_subsystems_req(c))
check_subsystem_exists == \E i \in SubsystemIds : request(check_subsystem_exists_req(i))
add_subsystem ==
    \E i \in SubsystemIds, c \in ClusterNames :
        request(add_subsystem_req(i, "kw", "app.log", "100", c))
adjust_subsystem_cluster ==
    \E i \in SubsystemIds :
        request(adjust_subsystem_cluster_req(i, "?targetClusterName=LOG008&traffic=100"))
adjust_subsystem_status ==
    \E i \in SubsystemIds, st \in {"disable"} :
        request(adjust_subsystem_status_req(i, st))
enable_subsystem == \E i \in SubsystemIds : request(enable_subsystem_req(i))
get_subsystem_detail == \E i \in SubsystemIds : request(get_subsystem_detail_req(i))
get_subsystems == request(get_subsystems_req)
search_subsystems ==
    \E i \in {""} \cup SubsystemIds, l \in {"20", "10"} :
        /\ i # "" => l = "10"
        /\ request(search_subsystems_req(i, l))

\* Variant of request_with_timeout that keeps the timeout of the call as the
\* timeout of the client.
request_with_timeout_kept ==
    \E tmo \in {5, NoTimeout} :
        /\ pc = "in_scope"
        /\ calls < MaxCalls
        /\ calls' = calls + 1
        /\ req' = Req("_request", "GET", Path(<<"operation", "dashboard">>),
                      FALSE, NoMap, NoMap, tmo, NoMap)
        /\ url' = base_url \o req'.endpoint
        /\ req_timeout' = tmo
        /\ timeout' = tmo
        /\ total' = self_config.max_retries
        /\ history' = <<>>
        /\ sent' = 0
        /\ delays' = <<>>
        /\ last' = NoObs
        /\ returned' = FALSE
        /\ data' = NullBody
        /\ exc' = NoExc
        /\ value' = NoValue
        /\ pc' = "sending"
        /\ UNCHANGED <<cfgVars, session, base_url, self_config, closes, exit_path>>

\* _request called with a `timeout` keyword of its own (**kwargs, 143-159):
\* five seconds, or None.
request_with_timeout ==
    \E tmo \in {5, NoTimeout} :
        request(Req("_request", "GET", Path(<<"operation", "dashboard">>),
                    FALSE, NoMap, NoMap, tmo, NoMap))

Operation ==
    \/ get_dashboard \/ get_clusters \/ get_cluster_detail \/ add_cluster_node
    \/ delete_cluster_node \/ get_cluster_subsystems \/ check_subsystem_exists
    \/ add_subsystem \/ adjust_subsystem_cluster \/ adjust_subsystem_status
    \/ enable_subsystem \/ get_subsystem_detail \/ get_subsystems
    \/ search_subsystems
    \/ cmd_add_node \/ request_with_timeout

Next ==
    \/ FromYaml \/ FromDict \/ CliConfig
    \/ WeapmClientInit \/ Enter
    \/ Operation
    \/ Refuse \/ Attempt
    \/ Caught \/ ExitNormal \/ ExitException \/ ExitAbort

Spec == Init /\ [][Next]_vars

\* ================================================================ properties
\* A call has ended: the operation returned or raised.
Done == calls > 0 /\ pc \in {"in_scope", "raised", "exited"}

Is2xx(status) == 200 <= status /\ status < 300

\* The error kind of the specification an exception falls under.
Kind(e) ==
    CASE e.cls \in {"ConnectionError", "ConnectTimeout", "ReadTimeout"} -> "TransportError"
      [] e.cls = "HTTPError" /\ e.status # 0 -> "HttpError"
      [] e.cls = "HTTPError" /\ e.status = 0 -> "ApplicationError"
      [] e.cls = "ValueError" -> "DecodeError"
      [] OTHER -> "other"

\* C1: a 2xx response whose decoded body is a mapping with a non-zero `code`
\* makes _request raise the application error with that code and the body's
\* message (the default message when there is none); nothing is returned.
C1_ApplicationErrorOn2xx ==
    LET body == last.response.body IN
    (/\ Done
     /\ last.kind = "response"
     /\ Is2xx(last.response.status)
     /\ body.shape = "dict"
     /\ "code" \in body.keys
     /\ body.code # 0)
    => /\ ~returned
       /\ value = NoValue
       /\ exc = Exc("HTTPError", 0, body.code,
                    IF "message" \in body.keys THEN body.message ELSE DefaultMessage)

C1_Witness ==
    /\ Done
    /\ last.response.status = 200
    /\ last.response.body = Dict({"code"}, 7, "", JsonNull)
    /\ exc = Exc("HTTPError", 0, 7, DefaultMessage)

\* C2: a 2xx response whose body decodes to a mapping with `code` equal to 0
\* makes _request return the decoded payload unchanged and raise nothing.
C2_PayloadReturnedOnCodeZero ==
    LET body == last.response.body IN
    (/\ Done
     /\ last.kind = "response"
     /\ Is2xx(last.response.status)
     /\ body.shape = "dict"
     /\ "code" \in body.keys
     /\ body.code = 0)
    => /\ returned
       /\ data = body
       /\ ~req.unwrap => (exc = NoExc /\ value = Value("payload", body, JsonNull))

C2_Witness ==
    /\ Done
    /\ req.op = "get_dashboard"
    /\ returned
    /\ data = Dict({"code", "result"}, 0, "", Clusters)
    /\ value.payload.result = Clusters

\* C3: every call ends in a returned payload or in exactly one of
\* TransportError, HttpError, DecodeError and ApplicationError (stated for the
\* calls whose request was sent).
C3_FiveErrorKinds ==
    (Done /\ sent > 0) => \/ exc = NoExc
            \/ Kind(exc) \in {"TransportError", "HttpError", "DecodeError",
                              "ApplicationError"}

\* Every answer of this call so far had a status of the retry policy's list.
KeepsFailing ==
    /\ sent > 0
    /\ last.kind = "response"
    /\ last.response.status \in status_forcelist
    /\ \A i \in 1..Len(history) : history[i] \in status_forcelist

\* At most max_retries re-sends, and then the call is over with a failure.
BoundedRetries ==
    /\ sent <= 1 + self_config.max_retries
    /\ pc = "sending" => sent <= self_config.max_retries
    /\ Done => (exc # NoExc /\ sent = 1 + self_config.max_retries)

\* C4 as stated: against a server that keeps answering with a status of the
\* list, at most max_retries re-sends, no delay shorter than the one before
\* it, and then a failure.
C4_NonDecreasingDelays ==
    KeepsFailing =>
        /\ BoundedRetries
        /\ \A i \in 1..Len(delays), j \in 1..Len(delays) :
              i < j => delays[i].delay <= delays[j].delay

\* C4 amended: at most max_retries re-sends and then a failure; the delays
\* the backoff decides never decrease, while a delay taken from a Retry-After
\* header may be longer or shorter than its neighbours.
C4_NonDecreasingBackoff ==
    KeepsFailing =>
        /\ BoundedRetries
        /\ \A i \in 1..Len(delays), j \in 1..Len(delays) :
              (i < j /\ delays[i].by = "backoff" /\ delays[j].by = "backoff")
                  => delays[i].delay <= delays[j].delay

C4_Witness ==
    /\ KeepsFailing
    /\ Done
    /\ exc.cls = "RetryError"
    /\ sent = 1 + DefaultMaxRetries
    /\ \A i \in 1..Len(delays) : delays[i].by = "backoff"
    /\ delays[1].delay < delays[2].delay
    /\ delays[2].delay < delays[3].delay

\* The call ended because the retry budget was used up.
Exhausted == Done /\ sent > 0 /\ total = 0 /\ retryable(last, req.method, total)

\* C5: with the budget exhausted, a last attempt that got a non-2xx status
\* ends the call with HttpError carrying that status, and a last attempt that
\* timed out or could not connect ends it with TransportError.
C5_LastFailureSurfaced ==
    Exhausted =>
        /\ (last.kind = "response" /\ ~Is2xx(last.response.status))
              => (Kind(exc) = "HttpError" /\ exc.status = last.response.status)
        /\ last.kind # "response" => Kind(exc) = "TransportError"

\* C6: the session is closed exactly once on every way out of the
\* with-block, and it stays open inside the block.
C6_ClosedOnEveryExit ==
    /\ pc = "exited" => (closes = 1 /\ session = "closed")
    /\ pc \in {"in_scope", "sending", "raised"} => (closes = 0 /\ session = "open")

C6_Witness ==
    /\ pc = "exited"
    /\ exit_path = "abort"
    /\ exc # NoExc
    /\ closes = 1
    /\ session = "closed"

\* The selected environment is missing from the document, or its block has
\* no base_url.
InvalidEnvironment(doc, e) ==
    LET sel == selected_env(doc, e) IN
    \/ sel \notin doc.keys
    \/ doc[sel].shape = "null"
    \/ "base_url" \notin doc[sel].keys

\* C7: from_yaml fails with FileNotFoundError when there is no document, and
\* with ValueError for every document whose selected environment is missing
\* or has no base_url; it returns no configuration in those cases.
C7_InvalidEnvironmentIsValueError ==
    (source = "from_yaml" /\ pc \in {"configured", "config_error"}) =>
        /\ ~config_data.exists => error = "FileNotFoundError"
        /\ (config_data.exists /\ InvalidEnvironment(config_data, env))
              => (error = "ValueError" /\ pc = "config_error")

HasTrailingSlash(s) == s # <<>> /\ s[Len(s)] = "/"

\* C8 as stated: the base URL of every client is non-empty and has no
\* trailing slash.
C8_NonEmptyBaseUrl ==
    session # "none" => (base_url # <<>> /\ ~HasTrailingSlash(base_url))

\* C8 amended: the base URL of every client has no trailing slash; it is
\* empty exactly when the configured base_url is empty or slashes only.
C8_NoTrailingSlash ==
    session # "none" =>
        /\ ~HasTrailingSlash(base_url)
        /\ base_url = <<>> <=>
              \A i \in 1..Len(self_config.base_url) : self_config.base_url[i] = "/"
        /\ calls > 0 => SubSeq(url, 1, Len(base_url)) = base_url

C8_Witness ==
    /\ session = "open"
    /\ self_config.base_url = Host \o <<"/", "/">>
    /\ base_url = Host
    /\ calls > 0

C10_ListOperations ==
    (Done /\ req.unwrap /\ returned) =>
        /\ exc = NoExc
        /\ value.kind = "result"
        /\ value.result.t = "list"
        /\ value.result = IF "result" \in data.keys THEN data.result ELSE EmptyList

\* The optional fields of a node (client 249-251, cli 74-80).
OptionalFields ==
    {"cpulimit", "memlimit", "topic", "bucketnames", "backenddomain",
     "storagedomain", "status"}

\* The caller of add_cluster_node gave the field a value.
Supplied(k) == k \in req.args.keys /\ req.args.val[k] # None

\* C11: add_cluster_node with the required arguments only sends a body with
\* exactly the keys address, clustername and role; for any call, the key of an
\* optional field is in the body if and only if the caller supplied the
\* field, and then with the supplied value.
C11_OptionalKeysIffSupplied ==
    (calls > 0 /\ req.op = "add_cluster_node") =>
        /\ (\A k \in OptionalFields : ~Supplied(k))
              => req.json.keys = {"address", "clustername", "role"}
        /\ \A k \in OptionalFields :
              /\ k \in req.json.keys <=> Supplied(k)
              /\ k \in req.json.keys => req.json.val[k] = req.args.val[k]

\* C12 as stated: the timeout handed to session.request is the one of the
\* call when the caller passed one and the timeout of the configuration
\* otherwise, and no request goes out without a timeout.
C12_NeverWithoutTimeout ==
    calls > 0 =>
        /\ req_timeout = IF req.timeout # NotPassed THEN req.timeout
                         ELSE self_config.timeout
        /\ req_timeout # NoTimeout

\* C12 amended: the timeout handed to session.request is the `timeout`
\* keyword of the call whenever the caller passed one, None included, and the
\* timeout of the configuration otherwise; the request goes out without a
\* timeout exactly when the value so chosen is None.
C12_TimeoutKeywordOrDefault ==
    calls > 0 =>
        /\ req.timeout # NotPassed => req_timeout = req.timeout
        /\ req.timeout = NotPassed => req_timeout = self_config.timeout
        /\ req_timeout = NoTimeout <=>
              \/ req.timeout = NoTimeout
              \/ req.timeout = NotPassed /\ self_config.timeout = NoTimeout

C12_Witness ==
    /\ Done
    /\ sent > 0
    /\ req.timeout = NoTimeout
    /\ req_timeout = NoTimeout
    /\ self_config.timeout = DefaultTimeout

\* C13: a call whose last answer has a status outside 2xx ends with the
\* status error carrying that status, never with the decode or application
\* error; a 2xx answer whose body cannot be decoded ends it with the decode
\* error.
C13_StatusBeforeBodyBeforeCode ==
    (Done /\ last.kind = "response") =>
        /\ ~Is2xx(last.response.status)
              => (Kind(exc) = "HttpError" /\ exc.status = last.response.status)
        /\ (Is2xx(last.response.status) /\ last.response.body.shape = "invalid")
              => Kind(exc) = "DecodeError"

\* C14: the body of add_cluster_node carries the required arguments under
\* address, role and clustername, and clustername is the cluster segment of
\* the path /operation/clusters/{cluster}/nodes.
C14_RequiredKeysKept ==
    (calls > 0 /\ req.op = "add_cluster_node") =>
        /\ {"address", "clustername", "role"} \subseteq req.json.keys
        /\ req.json.val["address"] = req.args.val["address"]
        /\ req.json.val["role"] = req.args.val["role"]
        /\ req.json.val["clustername"] = req.endpoint[6]

\* C15: whatever calls were made on a client, its configuration, its base
\* URL and its timeout are the ones of its construction, and each call starts
\* from them alone: its URL from the stripped base URL, its retry budget from
\* max_retries.
C15_ClientUnchangedByCalls ==
    /\ session # "none" =>
          /\ self_config = config
          /\ base_url = rstrip(config.base_url)
          /\ timeout = config.timeout
    /\ calls > 0 =>
          /\ url = rstrip(config.base_url) \o req.endpoint
          /\ total + Len(history) = config.max_retries
          /\ req.timeout = NotPassed => req_timeout = config.timeout

C15_Witness ==
    /\ calls >= 2
    /\ Done
    /\ req.op = "_request"
    /\ req.timeout = 5
    /\ req_timeout = 5
    /\ timeout = DefaultTimeout
    /\ exc # NoExc

====
